---- MODULE Spec2Model ----
(***************************************************************************)
(* Model of api_parser.py: the extraction of the Okdesk API catalogue from *)
(* the parsed HTML documentation page.                                     *)
(*                                                                         *)
(* A text is a sequence of one-character strings, so that str.replace,     *)
(* str.split, str.join and the substring test of the source are computed   *)
(* character by character.  A Python exception is a result record          *)
(* [ok |-> FALSE, error |-> <exception class>].                            *)
(***************************************************************************)
EXTENDS Integers, Sequences, FiniteSets, TLC

VARIABLES
    pc,                   \* position of the call under study
    text,                 \* normalize_text: argument
    normalized,           \* normalize_text(text)
    renormalized,         \* normalize_text(normalize_text(text))
    elements,             \* _parse_description: argument
    description,          \* _parse_description: returned list
    nav,                  \* _parse_navigation_structure: resource groups of <nav>
    sections_structure,   \* _parse_navigation_structure: result
    endpoint,             \* _parse_endpoint: children of the "action" block
    endpoint_links,       \* _parse_endpoint / _parse_section: navigation index
    section_name,         \* _parse_endpoint: name of the parent section
    endpoint_result,      \* _parse_endpoint: result
    section_element,      \* _parse_section: the <section> element
    section_result,       \* _parse_section: result
    document,             \* get_parsed_api_data: the fetched page
    navigation_structure, \* get_parsed_api_data: local navigation_structure
    api_data,             \* _get_okdesk_api_data: local api_data
    section_index,        \* _get_okdesk_api_data: position of the section loop
    parse_result          \* get_parsed_api_data: returned ParseResult

vars == <<pc, text, normalized, renormalized, elements, description, nav,
          sections_structure, endpoint, endpoint_links, section_name,
          endpoint_result, section_element, section_result, document,
          navigation_structure, api_data, section_index, parse_result>>

(***************************************************************************)
(* Bounds                                                                  *)
(***************************************************************************)
MaxTextLen == 5
MaxElements == 3
MaxGroups == 2
MaxChildren == 4
MaxEndpoints == 2
MaxSections == 2

(***************************************************************************)
(* Generic helpers                                                         *)
(***************************************************************************)
Range(s) == {s[i] : i \in 1..Len(s)}

SeqsUpTo(S, n) == UNION {[1..k -> S] : k \in 0..n}

Min(S) == CHOOSE m \in S : \A k \in S : m <= k

\* dict[key] = value
Put(d, k, v) == [x \in (DOMAIN d) \cup {k} |-> IF x = k THEN v ELSE d[x]]

EmptyDict == [x \in {} |-> x]

Ok(v) == [ok |-> TRUE, value |-> v]
Raise(e) == [ok |-> FALSE, error |-> e]

(***************************************************************************)
(* Characters                                                              *)
(***************************************************************************)
Pilcrow == "¶"
Whitespace == {" ", "\n"}
Chars == {"a", " ", "\n", Pilcrow}

\* sub in txt, the Python substring test
Contains(sub, txt) ==
    \E i \in 1..(Len(txt) - Len(sub) + 1) :
        SubSeq(txt, i, i + Len(sub) - 1) = sub

(***************************************************************************)
(* normalize_text                                                          *)
(***************************************************************************)
\* text.replace("¶", "")
RemovePilcrow(t) == SelectSeq(t, LAMBDA c : c # Pilcrow)

\* text.split(): the maximal runs of non-whitespace characters, in order
RECURSIVE SplitFrom(_, _, _)
SplitFrom(t, word, words) ==
    IF t = <<>>
    THEN IF word = <<>> THEN words ELSE Append(words, word)
    ELSE IF Head(t) \in Whitespace
         THEN SplitFrom(Tail(t), <<>>,
                        IF word = <<>> THEN words ELSE Append(words, word))
         ELSE SplitFrom(Tail(t), Append(word, Head(t)), words)

Split(t) == SplitFrom(t, <<>>, <<>>)

\* " ".join(words)
RECURSIVE Join(_)
Join(words) ==
    IF words = <<>> THEN <<>>
    ELSE IF Len(words) = 1 THEN words[1]
    ELSE words[1] \o <<" ">> \o Join(Tail(words))

\* A slip: the marker is removed after the words are joined.
normalize_text_marker_last(t) == RemovePilcrow(Join(Split(t)))

normalize_text(t) == Join(Split(RemovePilcrow(t)))

(***************************************************************************)
(* _parse_note, _parse_table, _parse_description                           *)
(*                                                                         *)
(* A node is [tag, name, text, class, rows, children]: whether it is a Tag *)
(* (and not a text node), tag name, .text, the tokens of its class         *)
(* attribute (<<>> when it has none), the cell texts of its <tr> rows, and *)
(* its child nodes, each a [tag, text].                                    *)
(***************************************************************************)
\* [tag for tag in elements if isinstance(tag, Tag)]
get_tags_only(nodes) == SelectSeq(nodes, LAMBDA n : n.tag)

\* text.strip()
RECURSIVE LStrip(_)
LStrip(t) == IF t # <<>> /\ Head(t) \in Whitespace THEN LStrip(Tail(t)) ELSE t

RECURSIVE RStrip(_)
RStrip(t) ==
    IF t # <<>> /\ t[Len(t)] \in Whitespace
    THEN RStrip(SubSeq(t, 1, Len(t) - 1))
    ELSE t

Strip(t) == RStrip(LStrip(t))

_parse_note(note) ==
    LET texts == [i \in 1..Len(note.children) |-> normalize_text(note.children[i].text)]
        non_empty_texts == SelectSeq(texts, LAMBDA t : Strip(t) # <<>>)
    IN <<"note">> \o non_empty_texts

_parse_table(table) ==
    LET table_data ==
            [r \in 1..Len(table.rows) |->
                [c \in 1..Len(table.rows[r]) |-> normalize_text(table.rows[r][c])]]
    IN <<"table", table_data>>

\* A slip: the "URI" heading is skipped but the loop goes on.
RECURSIVE _parse_description_no_break(_)
_parse_description_no_break(els) ==
    IF els = <<>> THEN <<>>
    ELSE LET element == Head(els) IN
         IF element.name = "p"
         THEN <<<<"p", normalize_text(element.text)>>>>
              \o _parse_description_no_break(Tail(els))
         ELSE IF element.name = "h4" /\ Contains(<<"U", "R", "I">>, element.text)
         THEN _parse_description_no_break(Tail(els))
         ELSE IF element.name = "h4"
         THEN <<<<"h4", normalize_text(element.text)>>>>
              \o _parse_description_no_break(Tail(els))
         ELSE IF element.name = "table"
         THEN <<_parse_table(element)>> \o _parse_description_no_break(Tail(els))
         ELSE IF "note" \in Range(element.class)
         THEN <<_parse_note(element)>> \o _parse_description_no_break(Tail(els))
         ELSE _parse_description_no_break(Tail(els))

\* A slip: an element of an unrecognised kind ends the walk.
RECURSIVE _parse_description_stop_on_other(_)
_parse_description_stop_on_other(els) ==
    IF els = <<>> THEN <<>>
    ELSE LET element == Head(els) IN
         IF element.name = "p"
         THEN <<<<"p", normalize_text(element.text)>>>>
              \o _parse_description_stop_on_other(Tail(els))
         ELSE IF element.name = "h4" /\ Contains(<<"U", "R", "I">>, element.text)
         THEN <<>>
         ELSE IF element.name = "h4"
         THEN <<<<"h4", normalize_text(element.text)>>>>
              \o _parse_description_stop_on_other(Tail(els))
         ELSE IF element.name = "table"
         THEN <<_parse_table(element)>> \o _parse_description_stop_on_other(Tail(els))
         ELSE IF "note" \in Range(element.class)
         THEN <<_parse_note(element)>> \o _parse_description_stop_on_other(Tail(els))
         ELSE <<>>

RECURSIVE _parse_description(_)
_parse_description(els) ==
    IF els = <<>> THEN <<>>
    ELSE LET element == Head(els) IN
         IF element.name = "p"
         THEN <<<<"p", normalize_text(element.text)>>>> \o _parse_description(Tail(els))
         ELSE IF element.name = "h4" /\ Contains(<<"U", "R", "I">>, element.text)
         THEN <<>>
         ELSE IF element.name = "h4"
         THEN <<<<"h4", normalize_text(element.text)>>>> \o _parse_description(Tail(els))
         ELSE IF element.name = "table"
         THEN <<_parse_table(element)>> \o _parse_description(Tail(els))
         ELSE IF "note" \in Range(element.class)
         THEN <<_parse_note(element)>> \o _parse_description(Tail(els))
         ELSE _parse_description(Tail(els))

(***************************************************************************)
(* _extract_endpoint_metadata, _parse_endpoint                             *)
(*                                                                         *)
(* An endpoint block is the sequence of its child nodes.  The navigation   *)
(* index is a function from section names to functions from endpoint names *)
(* to links.                                                               *)
(***************************************************************************)
_extract_endpoint_metadata(endpoint_children_slice) ==
    LET acount_name == endpoint_children_slice[1]
        action_heading == endpoint_children_slice[2]
        action_heading_children == get_tags_only(action_heading.children)
    IN IF Len(action_heading_children) < 2
       THEN Raise("IndexError")
       ELSE Ok(<<acount_name.text,
                 action_heading_children[1].text,
                 action_heading_children[2].text>>)

EndpointData(link, method, uri, desc) ==
    [endpoint_link |-> link, method |-> method, uri |-> uri, description |-> desc]

\* A slip: two children are taken to be enough.
_parse_endpoint_two_children(ep, links, sec) ==
    LET endpoint_children == get_tags_only(ep) IN
    IF Len(endpoint_children) < 2
    THEN Raise("ValueError")
    ELSE LET meta == _extract_endpoint_metadata(SubSeq(endpoint_children, 1, 2)) IN
         IF ~meta.ok THEN meta
         ELSE LET ep_name == meta.value[1] IN
              IF sec \notin DOMAIN links \/ ep_name \notin DOMAIN links[sec]
              THEN Raise("KeyError")
              ELSE Ok(<<ep_name,
                        EndpointData(links[sec][ep_name], meta.value[2], meta.value[3],
                            _parse_description(
                                SubSeq(endpoint_children, 3, Len(endpoint_children))))>>)

\* A slip: a missing key is replaced by an empty link.
_parse_endpoint_default_link(ep, links, sec) ==
    LET endpoint_children == get_tags_only(ep) IN
    IF Len(endpoint_children) < 3
    THEN Raise("ValueError")
    ELSE LET meta == _extract_endpoint_metadata(SubSeq(endpoint_children, 1, 2)) IN
         IF ~meta.ok THEN meta
         ELSE LET ep_name == meta.value[1]
                  link == IF sec \notin DOMAIN links \/ ep_name \notin DOMAIN links[sec]
                          THEN <<>>
                          ELSE links[sec][ep_name]
              IN Ok(<<ep_name,
                      EndpointData(link, meta.value[2], meta.value[3],
                          _parse_description(
                              SubSeq(endpoint_children, 3, Len(endpoint_children))))>>)

_parse_endpoint(ep, links, sec) ==
    LET endpoint_children == get_tags_only(ep) IN
    IF Len(endpoint_children) < 3
    THEN Raise("ValueError")
    ELSE LET meta == _extract_endpoint_metadata(SubSeq(endpoint_children, 1, 2)) IN
         IF ~meta.ok THEN meta
         ELSE LET ep_name == meta.value[1] IN
              IF sec \notin DOMAIN links \/ ep_name \notin DOMAIN links[sec]
              THEN Raise("KeyError")
              ELSE Ok(<<ep_name,
                        EndpointData(links[sec][ep_name], meta.value[2], meta.value[3],
                            _parse_description(
                                SubSeq(endpoint_children, 3, Len(endpoint_children))))>>)

(***************************************************************************)
(* ensure_tag, _get_section_name, _parse_section                           *)
(*                                                                         *)
(* A section is [group_headings, actions]: the texts of its descendants of *)
(* class "group-heading" and its "action" blocks, both in document order.  *)
(* Tag.find returns the first match, or None when there is none.           *)
(***************************************************************************)
\* ensure_tag(found.find(...)), found being the matches in document order
ensure_tag(found) == IF found = <<>> THEN Raise("TypeError") ELSE Ok(found[1])

_get_section_name(sec) ==
    LET section_group_heading == ensure_tag(sec.group_headings) IN
    IF ~section_group_heading.ok THEN section_group_heading
    ELSE Ok(normalize_text(section_group_heading.value))

\* the loop of _parse_section over the endpoints still to parse
RECURSIVE SectionLoop(_, _, _, _)
SectionLoop(endpoints, links, sec_name, section_data) ==
    IF endpoints = <<>> THEN Ok(<<sec_name, section_data>>)
    ELSE LET parsed == _parse_endpoint(Head(endpoints), links, sec_name) IN
         IF ~parsed.ok THEN parsed
         ELSE SectionLoop(Tail(endpoints), links, sec_name,
                          Put(section_data, parsed.value[1], parsed.value[2]))

\* A slip: an endpoint name already present keeps its first record.
RECURSIVE SectionLoopKeepFirst(_, _, _, _)
SectionLoopKeepFirst(endpoints, links, sec_name, section_data) ==
    IF endpoints = <<>> THEN Ok(<<sec_name, section_data>>)
    ELSE LET parsed == _parse_endpoint(Head(endpoints), links, sec_name) IN
         IF ~parsed.ok THEN parsed
         ELSE SectionLoopKeepFirst(Tail(endpoints), links, sec_name,
                  IF parsed.value[1] \in DOMAIN section_data
                  THEN section_data
                  ELSE Put(section_data, parsed.value[1], parsed.value[2]))

_parse_section_keep_first(sec, links) ==
    LET sec_name == _get_section_name(sec) IN
    IF ~sec_name.ok THEN sec_name
    ELSE SectionLoopKeepFirst(sec.actions, links, sec_name.value, EmptyDict)

_parse_section(sec, links) ==
    LET sec_name == _get_section_name(sec) IN
    IF ~sec_name.ok THEN sec_name
    ELSE SectionLoop(sec.actions, links, sec_name.value, EmptyDict)

(***************************************************************************)
(* get_base_url, _parse_resource_group_data, _parse_navigation_structure   *)
(*                                                                         *)
(* A resource group is [rg_links, links]: the texts of its descendants of  *)
(* class "rg-link" and its "rg-r-a-link" elements, each a [text, href]     *)
(* whose href is <<>> when the attribute is missing.  Every href of the    *)
(* model is a fragment reference, which urljoin appends to the base URL.   *)
(***************************************************************************)
\* urldefrag(url).url of the default api_docs_url
base_url == "https://apidocs.okdesk.com/apidoc"

urljoin(base, href) == <<base, href>>

\* dict(pairs)
RECURSIVE DictOf(_, _)
DictOf(pairs, d) ==
    IF pairs = <<>> THEN d
    ELSE DictOf(Tail(pairs), Put(d, Head(pairs)[1], Head(pairs)[2]))

_parse_resource_group_data(group, base) ==
    LET rg_r_a_links == group.links IN
    IF \E i \in 1..Len(rg_r_a_links) : rg_r_a_links[i].href = <<>>
    THEN Raise("KeyError")
    ELSE Ok(DictOf([i \in 1..Len(rg_r_a_links) |->
                       <<rg_r_a_links[i].text, urljoin(base, rg_r_a_links[i].href[1])>>],
                   EmptyDict))

\* the loop of _parse_navigation_structure over the groups still to parse
RECURSIVE NavigationLoop(_, _, _)
NavigationLoop(resource_groups, base, structure) ==
    IF resource_groups = <<>> THEN Ok(structure)
    ELSE LET group == Head(resource_groups) IN
         IF group.rg_links = <<>>
         THEN NavigationLoop(Tail(resource_groups), base, structure)
         ELSE LET data == _parse_resource_group_data(group, base) IN
              IF ~data.ok THEN data
              ELSE NavigationLoop(Tail(resource_groups), base,
                                  Put(structure, group.rg_links[1], data.value))

\* A slip: the loop ends at the first group without a label.
RECURSIVE NavigationLoopBreak(_, _, _)
NavigationLoopBreak(resource_groups, base, structure) ==
    IF resource_groups = <<>> THEN Ok(structure)
    ELSE LET group == Head(resource_groups) IN
         IF group.rg_links = <<>>
         THEN Ok(structure)
         ELSE LET data == _parse_resource_group_data(group, base) IN
              IF ~data.ok THEN data
              ELSE NavigationLoopBreak(Tail(resource_groups), base,
                                       Put(structure, group.rg_links[1], data.value))

_parse_navigation_structure_break(groups, base) ==
    NavigationLoopBreak(groups, base, EmptyDict)

_parse_navigation_structure(groups, base) == NavigationLoop(groups, base, EmptyDict)

(***************************************************************************)
(* Values of the variables a specification does not use                    *)
(***************************************************************************)
TextIdle == text = <<>> /\ normalized = <<>> /\ renormalized = <<>>
DescriptionIdle == elements = <<>> /\ description = <<>>
NavigationIdle == nav = <<>> /\ sections_structure = Raise("NotCalled")
EndpointIdle ==
    /\ endpoint = <<>>
    /\ section_name = <<>>
    /\ endpoint_result = Raise("NotCalled")
SectionIdle == section_element = <<>> /\ section_result = Raise("NotCalled")
LinksIdle == endpoint_links = EmptyDict
RunIdle ==
    /\ document = <<>>
    /\ navigation_structure = EmptyDict
    /\ api_data = EmptyDict
    /\ section_index = 0
    /\ parse_result = <<>>

(***************************************************************************)
(* SpecText: normalize_text applied to a text, then to its own result      *)
(***************************************************************************)
Texts == SeqsUpTo(Chars, MaxTextLen)

InitText ==
    /\ pc = "start"
    /\ text \in Texts
    /\ normalized = <<>>
    /\ renormalized = <<>>
    /\ DescriptionIdle /\ NavigationIdle /\ EndpointIdle /\ SectionIdle
    /\ LinksIdle /\ RunIdle

Normalize ==
    /\ pc = "start"
    /\ normalized' = normalize_text(text)
    /\ pc' = "once"
    /\ UNCHANGED <<text, renormalized, elements, description, nav,
                   sections_structure, endpoint, endpoint_links, section_name,
                   endpoint_result, section_element, section_result, document,
                   navigation_structure, api_data, section_index, parse_result>>

NormalizeAgain ==
    /\ pc = "once"
    /\ renormalized' = normalize_text(normalized)
    /\ pc' = "done"
    /\ UNCHANGED <<text, normalized, elements, description, nav,
                   sections_structure, endpoint, endpoint_links, section_name,
                   endpoint_result, section_element, section_result, document,
                   navigation_structure, api_data, section_index, parse_result>>

NextText == Normalize \/ NormalizeAgain

SpecText == InitText /\ [][NextText]_vars

\* C8: normalize_text is idempotent, and its result has no pilcrow, no
\* whitespace at either end and no two whitespace characters in a row (the
\* only whitespace left is a single space between two words).
NormalizeIdempotentAndClean ==
    /\ pc = "done" => renormalized = normalized
    /\ pc \in {"once", "done"} =>
          /\ Pilcrow \notin Range(normalized)
          /\ normalized # <<>> =>
                /\ normalized[1] \notin Whitespace
                /\ normalized[Len(normalized)] \notin Whitespace
          /\ \A i \in 1..(Len(normalized) - 1) :
                ~(normalized[i] \in Whitespace /\ normalized[i + 1] \in Whitespace)
          /\ text = <<>> => normalized = <<>>

\* C8 witness: the marker sits between whitespace and between two words.
NormalizeWitness ==
    /\ pc = "done"
    /\ text = <<"a", " ", Pilcrow, " ", "a">>
    /\ normalized = <<"a", " ", "a">>
    /\ renormalized = <<"a", " ", "a">>

(***************************************************************************)
(* SpecDescription: _parse_description applied to a list of elements       *)
(***************************************************************************)
Element(n, t, c, r, ch) ==
    [tag |-> TRUE, name |-> n, text |-> t, class |-> c, rows |-> r, children |-> ch]

TextNode(t) ==
    [tag |-> FALSE, name |-> "", text |-> t, class |-> <<>>, rows |-> <<>>,
     children |-> <<>>]

ChildTag(t) == [tag |-> TRUE, text |-> t]
ChildText(t) == [tag |-> FALSE, text |-> t]

DescriptionElements ==
    { Element("p", <<" ", "a", "\n", Pilcrow>>, <<>>, <<>>, <<>>),
      Element("p", <<"U", "R", "I">>, <<"note">>, <<>>, <<>>),
      Element("h4", <<"a", " ", "U", "R", "I", Pilcrow>>, <<>>, <<>>, <<>>),
      Element("h4", <<"U", "R", "I">>, <<"note">>, <<>>, <<>>),
      Element("h4", <<"u", "r", "i">>, <<>>, <<>>, <<>>),
      Element("h4", <<"U", Pilcrow, "R", "I">>, <<>>, <<>>, <<>>),
      Element("table", <<"a", "a">>, <<>>,
              << <<<<"a">>, <<" ", "a", " ", " ", "a">>>>, <<<<Pilcrow>>>> >>, <<>>),
      Element("div", <<"a">>, <<"note">>, <<>>, <<ChildText(<<"\n">>), ChildTag(<<"a", " ">>), ChildTag(<<Pilcrow>>)>>),
      Element("div", <<"a">>, <<"x", "note">>, <<>>,
              <<ChildTag(<<"a">>), ChildText(<<"a">>)>>),
      Element("div", <<"a">>, <<"noted">>, <<>>, <<ChildTag(<<"a">>)>>),
      Element("span", <<"U", "R", "I">>, <<>>, <<>>, <<>>) }

InitDescription ==
    /\ pc = "start"
    /\ elements \in SeqsUpTo(DescriptionElements, MaxElements)
    /\ description = <<>>
    /\ TextIdle /\ NavigationIdle /\ EndpointIdle /\ SectionIdle
    /\ LinksIdle /\ RunIdle

ParseDescription ==
    /\ pc = "start"
    /\ description' = _parse_description(elements)
    /\ pc' = "done"
    /\ UNCHANGED <<text, normalized, renormalized, elements, nav,
                   sections_structure, endpoint, endpoint_links, section_name,
                   endpoint_result, section_element, section_result, document,
                   navigation_structure, api_data, section_index, parse_result>>

NextDescription == ParseDescription

SpecDescription == InitDescription /\ [][NextDescription]_vars

\* the stop heading: an h4 whose text contains "URI"
IsStopHeading(e) == e.name = "h4" /\ Contains(<<"U", "R", "I">>, e.text)

\* position of the first stop heading, Len + 1 when there is none
StopIndex(els) ==
    IF \E i \in 1..Len(els) : IsStopHeading(els[i])
    THEN Min({i \in 1..Len(els) : IsStopHeading(els[i])})
    ELSE Len(els) + 1

IsRecognised(e) ==
    e.name \in {"p", "h4", "table"} \/ "note" \in Range(e.class)

\* the item of one recognised element that is not a stop heading
ItemOf(e) ==
    CASE e.name = "p" -> <<"p", normalize_text(e.text)>>
      [] e.name = "h4" -> <<"h4", normalize_text(e.text)>>
      [] e.name = "table" -> _parse_table(e)
      [] OTHER -> _parse_note(e)

\* C1: the walk stops at the first h4 whose text contains "URI": the
\* description has as many items as there are recognised elements strictly
\* before that heading, each item comes from one of those elements, and
\* nothing at or after the heading adds an item.
StopsAtFirstUriHeading ==
    pc = "done" =>
        LET stop == StopIndex(elements) IN
        /\ Len(description) =
              Cardinality({i \in 1..(stop - 1) : IsRecognised(elements[i])})
        /\ \A k \in 1..Len(description) :
              \E i \in 1..(stop - 1) : description[k] = ItemOf(elements[i])

\* C1 witness: recognised elements on both sides of a stop heading.
StopsAtFirstUriHeadingWitness ==
    /\ pc = "done"
    /\ Len(elements) = 3
    /\ IsStopHeading(elements[2])
    /\ elements[1].name = "p"
    /\ elements[3].name = "table"
    /\ Len(description) = 1

\* C2: the description is, in document order, exactly one item per
\* recognised element before the stop; other elements add nothing and do
\* not end the walk.
DescriptionInDocumentOrder ==
    pc = "done" =>
        LET prefix == SubSeq(elements, 1, StopIndex(elements) - 1)
            recognised == SelectSeq(prefix, IsRecognised)
        IN description = [k \in 1..Len(recognised) |-> ItemOf(recognised[k])]

\* C2 witness: an ignored element between two recognised ones, no stop.
DescriptionInDocumentOrderWitness ==
    /\ pc = "done"
    /\ Len(elements) = 3
    /\ StopIndex(elements) = 4
    /\ elements[1].name = "table"
    /\ ~IsRecognised(elements[2])
    /\ "note" \in Range(elements[3].class) /\ elements[3].name = "div"
    /\ Len(description) = 2
    /\ description[1][1] = "table"
    /\ description[2][1] = "note"

(***************************************************************************)
(* SpecNavigation: _parse_navigation_structure applied to a <nav>          *)
(***************************************************************************)
Link(t, h) == [text |-> t, href |-> h]

LinkA == Link(<<"a">>, <<"#a">>)
LinkA2 == Link(<<"a">>, <<"#a2">>)
LinkB == Link(<<"b">>, <<"#b">>)
LinkRaw == Link(<<" ", "a", "\n", " ", "b", Pilcrow>>, <<"#ab">>)
LinkNoHref == Link(<<"a">>, <<>>)

LinkLists ==
    { <<>>, <<LinkA>>, <<LinkA, LinkB>>, <<LinkA, LinkA2>>, <<LinkRaw>>,
      <<LinkB, LinkRaw>>, <<LinkNoHref>>, <<LinkA, LinkNoHref>> }

LabelS == <<"S">>
LabelSRaw == <<"\n", "S", " ", Pilcrow>>
LabelT == <<"T">>

RgLinkLists == { <<>>, <<LabelS>>, <<LabelSRaw>>, <<LabelT>>, <<LabelT, LabelS>> }

ResourceGroups == [rg_links : RgLinkLists, links : LinkLists]

InitNavigation ==
    /\ pc = "start"
    /\ nav \in SeqsUpTo(ResourceGroups, MaxGroups)
    /\ sections_structure = Raise("NotCalled")
    /\ TextIdle /\ DescriptionIdle /\ EndpointIdle /\ SectionIdle
    /\ LinksIdle /\ RunIdle

ParseNavigationStructure ==
    /\ pc = "start"
    /\ sections_structure' = _parse_navigation_structure(nav, base_url)
    /\ pc' = "done"
    /\ UNCHANGED <<text, normalized, renormalized, elements, description, nav,
                   endpoint, endpoint_links, section_name, endpoint_result,
                   section_element, section_result, document,
                   navigation_structure, api_data, section_index, parse_result>>

NextNavigation == ParseNavigationStructure

SpecNavigation == InitNavigation /\ [][NextNavigation]_vars

\* positions of the groups that have a label
Labelled(groups) == {i \in 1..Len(groups) : groups[i].rg_links # <<>>}

\* positions of the labelled groups no later group shares the label of
LastLabelled(groups) ==
    {i \in Labelled(groups) :
        \A j \in Labelled(groups) :
            groups[j].rg_links[1] = groups[i].rg_links[1] => j <= i}

HasAllHrefs(group) == \A k \in 1..Len(group.links) : group.links[k].href # <<>>

\* C6: a group without a label is skipped and never raises; when the
\* labelled groups parse, the index has exactly one key per distinct label,
\* whose value is the data of the (last) group of that label, wherever the
\* unlabelled groups stand.
SkipsUnlabelledGroups ==
    pc = "done" =>
        /\ sections_structure.ok <=> \A i \in Labelled(nav) : HasAllHrefs(nav[i])
        /\ sections_structure.ok =>
             /\ DOMAIN sections_structure.value =
                    {nav[i].rg_links[1] : i \in Labelled(nav)}
             /\ \A i \in LastLabelled(nav) :
                    sections_structure.value[nav[i].rg_links[1]] =
                        _parse_resource_group_data(nav[i], base_url).value

\* C6 witness: an unlabelled group whose link has no href stands before a
\* labelled group, and the labelled one is indexed.
SkipsUnlabelledGroupsWitness ==
    /\ pc = "done"
    /\ Len(nav) = 2
    /\ nav[1].rg_links = <<>> /\ nav[1].links = <<LinkNoHref>>
    /\ nav[2].rg_links = <<LabelT>> /\ nav[2].links = <<LinkA, LinkB>>
    /\ sections_structure.ok
    /\ DOMAIN sections_structure.value = {LabelT}
    /\ DOMAIN sections_structure.value[LabelT] = {<<"a">>, <<"b">>}

\* C9: the endpoint-name keys of a labelled group are the normalized texts
\* of its resource-action links.
NavigationKeysNormalized ==
    (pc = "done" /\ sections_structure.ok) =>
        \A i \in LastLabelled(nav) :
            DOMAIN sections_structure.value[nav[i].rg_links[1]] =
                {normalize_text(nav[i].links[k].text) : k \in 1..Len(nav[i].links)}

(***************************************************************************)
(* SpecEndpoint: _parse_endpoint applied to an "action" block, with a      *)
(* navigation index built by _parse_navigation_structure                   *)
(***************************************************************************)
\* .text of an element: the texts of its child nodes, concatenated
RECURSIVE ConcatTexts(_)
ConcatTexts(children) ==
    IF children = <<>> THEN <<>>
    ELSE Head(children).text \o ConcatTexts(Tail(children))

Holder(n, c, children) == Element(n, ConcatTexts(children), c, <<>>, children)

NameA == Element("h4", <<"a">>, <<"action-name">>, <<>>, <<>>)
NameB == Element("h4", <<"b">>, <<"action-name">>, <<>>, <<>>)
NameRaw ==
    Element("h4", <<" ", "a", "\n", " ", "b", Pilcrow>>, <<"action-name">>, <<>>, <<>>)

HeadingGet ==
    Holder("div", <<"action-heading">>,
           <<ChildText(<<"\n">>), ChildTag(<<"G", "E", "T">>),
             ChildText(<<" ">>), ChildTag(<<"/", "x">>)>>)
HeadingPost ==
    Holder("div", <<"action-heading">>,
           <<ChildTag(<<"P", "O", "S", "T">>), ChildTag(<<"/", "y">>)>>)
HeadingShort ==
    Holder("div", <<"action-heading">>,
           <<ChildTag(<<"G", "E", "T">>), ChildText(<<"/", "x">>)>>)

ParagraphA == Element("p", <<"a", " ", " ", "a">>, <<>>, <<>>, <<>>)
Blank == TextNode(<<"\n">>)

EndpointNodes ==
    { Blank, NameA, NameRaw, HeadingGet, HeadingShort, ParagraphA,
      Element("h4", <<"U", "R", "I">>, <<>>, <<>>, <<>>) }

GroupOf(label, links) == [rg_links |-> <<label>>, links |-> links]

EndpointNavs ==
    { <<>>,
      <<GroupOf(LabelS, <<LinkA>>)>>,
      <<GroupOf(LabelS, <<LinkB, LinkRaw>>)>>,
      <<GroupOf(LabelT, <<LinkA, LinkA2>>)>> }

InitEndpoint ==
    /\ pc = "start"
    /\ endpoint \in SeqsUpTo(EndpointNodes, MaxChildren)
    /\ nav \in EndpointNavs
    /\ endpoint_links = _parse_navigation_structure(nav, base_url).value
    /\ section_name \in {normalize_text(LabelSRaw), normalize_text(LabelT)}
    /\ endpoint_result = Raise("NotCalled")
    /\ sections_structure = Raise("NotCalled")
    /\ TextIdle /\ DescriptionIdle /\ SectionIdle /\ RunIdle

ParseEndpoint ==
    /\ pc = "start"
    /\ endpoint_result' = _parse_endpoint(endpoint, endpoint_links, section_name)
    /\ pc' = "done"
    /\ UNCHANGED <<text, normalized, renormalized, elements, description, nav,
                   sections_structure, endpoint, endpoint_links, section_name,
                   section_element, section_result, document,
                   navigation_structure, api_data, section_index, parse_result>>

NextEndpoint == ParseEndpoint

SpecEndpoint == InitEndpoint /\ [][NextEndpoint]_vars

\* the element children of the block under study
EndpointTags == get_tags_only(endpoint)

\* the name holder and the method/URI holder are there and well formed
EndpointWellFormed ==
    /\ Len(EndpointTags) >= 3
    /\ Len(get_tags_only(EndpointTags[2].children)) >= 2

HasLink(links, sec, name) == sec \in DOMAIN links /\ name \in DOMAIN links[sec]

\* C3: a block with fewer than three element children raises ValueError,
\* whatever its name and heading are and whatever the index holds; no
\* record is returned.
ShortEndpointRaises ==
    (pc = "done" /\ Len(EndpointTags) < 3) =>
        /\ endpoint_result = Raise("ValueError")
        /\ ~endpoint_result.ok

\* C3 witness: three child nodes of which two are elements, a well-formed
\* name and heading, and a name the index knows.
ShortEndpointRaisesWitness ==
    /\ pc = "done"
    /\ endpoint = <<NameA, Blank, HeadingGet>>
    /\ HasLink(endpoint_links, section_name, <<"a">>)
    /\ endpoint_result = Raise("ValueError")

\* C4: every returned record carries the link the index holds for
\* (section name, endpoint name), and a well-formed block whose name has no
\* entry raises KeyError.
MissingLinkRaises ==
    pc = "done" =>
        /\ endpoint_result.ok =>
             /\ endpoint_result.value[1] = EndpointTags[1].text
             /\ HasLink(endpoint_links, section_name, EndpointTags[1].text)
             /\ endpoint_result.value[2].endpoint_link =
                    endpoint_links[section_name][EndpointTags[1].text]
        /\ (EndpointWellFormed
              /\ ~HasLink(endpoint_links, section_name, EndpointTags[1].text)) =>
             endpoint_result = Raise("KeyError")

\* C4 witness: the section is indexed but the endpoint name is not.
MissingLinkRaisesWitness ==
    /\ pc = "done"
    /\ endpoint = <<NameRaw, HeadingGet, ParagraphA>>
    /\ section_name \in DOMAIN endpoint_links
    /\ endpoint_links[section_name] # EmptyDict
    /\ endpoint_result = Raise("KeyError")

(***************************************************************************)
(* SpecSection: _parse_section applied to a <section>, with a navigation   *)
(* index built by _parse_navigation_structure                              *)
(***************************************************************************)
BlockAGet == <<Blank, NameA, Blank, HeadingGet, Blank, ParagraphA>>
BlockAPost == <<NameA, HeadingPost, ParagraphA, ParagraphA>>
BlockB == <<NameB, HeadingGet, ParagraphA>>
BlockRaw == <<NameRaw, HeadingPost, ParagraphA>>
BlockShort == <<NameA, Blank, HeadingGet>>
BlockShortHeading == <<NameA, HeadingShort, ParagraphA>>

EndpointBlocks ==
    {BlockAGet, BlockAPost, BlockB, BlockRaw, BlockShort, BlockShortHeading}

GroupHeadingLists == { <<>>, <<LabelS>>, <<LabelSRaw>>, <<LabelT>> }

Sections ==
    [group_headings : GroupHeadingLists,
     actions : SeqsUpTo(EndpointBlocks, MaxEndpoints)]

SectionNavs ==
    {n \in SeqsUpTo(ResourceGroups, 1) : _parse_navigation_structure(n, base_url).ok}

InitSection ==
    /\ pc = "start"
    /\ section_element \in Sections
    /\ nav \in SectionNavs
    /\ endpoint_links = _parse_navigation_structure(nav, base_url).value
    /\ section_result = Raise("NotCalled")
    /\ sections_structure = Raise("NotCalled")
    /\ TextIdle /\ DescriptionIdle /\ EndpointIdle /\ RunIdle

ParseSection ==
    /\ pc = "start"
    /\ section_result' = _parse_section(section_element, endpoint_links)
    /\ pc' = "done"
    /\ UNCHANGED <<text, normalized, renormalized, elements, description, nav,
                   sections_structure, endpoint, endpoint_links, section_name,
                   endpoint_result, section_element, document,
                   navigation_structure, api_data, section_index, parse_result>>

NextSection == ParseSection

SpecSection == InitSection /\ [][NextSection]_vars

\* name-holder text of the i-th block of the section under study
BlockName(i) == get_tags_only(section_element.actions[i])[1].text

\* positions of the blocks no later block shares the name of
LastOfName ==
    {i \in 1..Len(section_element.actions) :
        \A j \in 1..Len(section_element.actions) :
            BlockName(j) = BlockName(i) => j <= i}

\* C7: the returned SectionRecord has one entry per endpoint name, and it
\* is the record built from the last block of that name.
LastDuplicateWins ==
    (pc = "done" /\ section_result.ok) =>
        /\ DOMAIN section_result.value[2] =
               {BlockName(i) : i \in 1..Len(section_element.actions)}
        /\ \A i \in LastOfName :
               section_result.value[2][BlockName(i)] =
                   _parse_endpoint(section_element.actions[i], endpoint_links,
                                   section_result.value[1]).value[2]

\* C7 witness: two blocks named "a", the first GET and the second POST.
LastDuplicateWinsWitness ==
    /\ pc = "done"
    /\ section_element.actions = <<BlockAGet, BlockAPost>>
    /\ section_result.ok
    /\ DOMAIN section_result.value[2] = {<<"a">>}
    /\ section_result.value[2][<<"a">>].method = <<"P", "O", "S", "T">>
    /\ Len(section_result.value[2][<<"a">>].description) = 2

\* the block is well formed and its name is the text of a link of the group
BlockMatches(block, group) ==
    /\ Len(get_tags_only(block)) >= 3
    /\ Len(get_tags_only(get_tags_only(block)[2].children)) >= 2
    /\ \E k \in 1..Len(group.links) :
           group.links[k].text = get_tags_only(block)[1].text

\* C10: when the label of the navigation group and the group heading of
\* the section are the same raw text, and every block is well formed and
\* named by the raw text of a link of that group, every lookup succeeds and
\* yields the URL of a link of that text.
LookupKeysAgree ==
    (/\ pc = "done"
     /\ Len(nav) = 1
     /\ section_element.group_headings # <<>>
     /\ nav[1].rg_links # <<>>
     /\ nav[1].rg_links[1] = section_element.group_headings[1]
     /\ \A i \in 1..Len(section_element.actions) :
            BlockMatches(section_element.actions[i], nav[1])) =>
        /\ section_result.ok
        /\ \A i \in 1..Len(section_element.actions) :
               \E k \in 1..Len(nav[1].links) :
                   /\ nav[1].links[k].text = BlockName(i)
                   /\ section_result.value[2][BlockName(i)].endpoint_link =
                          urljoin(base_url, nav[1].links[k].href[1])

(***************************************************************************)
(* SpecRun: get_parsed_api_data, one step per statement of its try block   *)
(* and one per iteration of the section loop of _get_okdesk_api_data       *)
(*                                                                         *)
(* A document is [status, navs, contents]: the outcome of the request, the *)
(* <nav> elements of the page (each the sequence of its resource groups)   *)
(* and its elements of class "content" (each the sequence of its           *)
(* sections).                                                              *)
(***************************************************************************)
\* the except clause that takes the exception, in the order of the source
ErrorPrefix(exception) ==
    IF exception = "RequestException" THEN "Network error"
    ELSE IF exception \in {"AttributeError", "TypeError", "ValueError"}
         THEN "Parsing error"
         ELSE "Unexpected error"

\* traceback.format_exc() is the trace of the exception being handled
_create_error_result(error_message, exception) ==
    [error |-> error_message, traceback |-> exception]

\* the ParseResult returned by the except clause that takes the exception
Except(exception) ==
    _create_error_result(<<ErrorPrefix(exception), exception>>, exception)

GoodNav == <<GroupOf(LabelS, <<LinkA, LinkB>>), GroupOf(LabelT, <<LinkA>>)>>
BrokenNav == <<GroupOf(LabelS, <<LinkA, LinkNoHref>>)>>

Section(headings, blocks) == [group_headings |-> headings, actions |-> blocks]

RunSections ==
    { Section(<<LabelS>>, <<BlockAGet, BlockB>>),
      Section(<<LabelSRaw>>, <<BlockAPost>>),
      Section(<<LabelT>>, <<BlockAGet>>),
      Section(<<LabelS>>, <<BlockAGet, BlockShort, BlockB>>),
      Section(<<LabelT>>, <<BlockAGet, BlockB>>),
      Section(<<LabelT>>, <<BlockShortHeading>>),
      Section(<<>>, <<BlockAGet>>) }

Documents ==
    [status : {"ok", "RequestException"},
     navs : {<<>>, <<GoodNav>>, <<BrokenNav>>},
     contents : {<<>>} \cup {<<c>> : c \in SeqsUpTo(RunSections, MaxSections)}]

InitRun ==
    /\ pc = "start"
    /\ document \in Documents
    /\ navigation_structure = EmptyDict
    /\ api_data = EmptyDict
    /\ section_index = 0
    /\ parse_result = EmptyDict
    /\ TextIdle /\ DescriptionIdle /\ NavigationIdle /\ EndpointIdle
    /\ SectionIdle /\ LinksIdle

\* session.get(base_url), raise_for_status(), BeautifulSoup(...)
Fetch ==
    /\ pc = "start"
    /\ IF document.status = "ok"
       THEN /\ pc' = "soup"
            /\ UNCHANGED parse_result
       ELSE /\ pc' = "done"
            /\ parse_result' = Except(document.status)
    /\ UNCHANGED <<text, normalized, renormalized, elements, description, nav,
                   sections_structure, endpoint, endpoint_links, section_name,
                   endpoint_result, section_element, section_result, document,
                   navigation_structure, api_data, section_index>>

\* nav = ensure_tag(...); content = ensure_tag(...);
\* navigation_structure = _parse_navigation_structure(nav, base_url)
BuildNavigation ==
    /\ pc = "soup"
    /\ LET found_nav == ensure_tag(document.navs)
           found_content == ensure_tag(document.contents)
       IN IF ~found_nav.ok \/ ~found_content.ok
          THEN /\ pc' = "done"
               /\ parse_result' = Except("TypeError")
               /\ UNCHANGED <<navigation_structure, section_index>>
          ELSE LET built == _parse_navigation_structure(found_nav.value, base_url) IN
               IF ~built.ok
               THEN /\ pc' = "done"
                    /\ parse_result' = Except(built.error)
                    /\ UNCHANGED <<navigation_structure, section_index>>
               ELSE /\ pc' = "sections"
                    /\ navigation_structure' = built.value
                    /\ section_index' = 1
                    /\ UNCHANGED parse_result
    /\ UNCHANGED <<text, normalized, renormalized, elements, description, nav,
                   sections_structure, endpoint, endpoint_links, section_name,
                   endpoint_result, section_element, section_result, document,
                   api_data>>

\* A slip: a section that fails to parse is skipped.
ParseNextSectionSkipFailed ==
    /\ pc = "sections"
    /\ section_index <= Len(document.contents[1])
    /\ LET parsed == _parse_section(document.contents[1][section_index],
                                    navigation_structure)
       IN IF ~parsed.ok
          THEN UNCHANGED api_data
          ELSE api_data' = Put(api_data, parsed.value[1], parsed.value[2])
    /\ section_index' = section_index + 1
    /\ UNCHANGED <<pc, parse_result>>
    /\ UNCHANGED <<text, normalized, renormalized, elements, description, nav,
                   sections_structure, endpoint, endpoint_links, section_name,
                   endpoint_result, section_element, section_result, document,
                   navigation_structure>>

\* one iteration of: for section in sections
ParseNextSection ==
    /\ pc = "sections"
    /\ section_index <= Len(document.contents[1])
    /\ LET parsed == _parse_section(document.contents[1][section_index],
                                    navigation_structure)
       IN IF ~parsed.ok
          THEN /\ pc' = "done"
               /\ parse_result' = Except(parsed.error)
               /\ UNCHANGED <<api_data, section_index>>
          ELSE /\ api_data' = Put(api_data, parsed.value[1], parsed.value[2])
               /\ section_index' = section_index + 1
               /\ UNCHANGED <<pc, parse_result>>
    /\ UNCHANGED <<text, normalized, renormalized, elements, description, nav,
                   sections_structure, endpoint, endpoint_links, section_name,
                   endpoint_result, section_element, section_result, document,
                   navigation_structure>>

\* return api_data; return {"data": api_data}
ReturnData ==
    /\ pc = "sections"
    /\ section_index > Len(document.contents[1])
    /\ parse_result' = [data |-> api_data]
    /\ pc' = "done"
    /\ UNCHANGED <<text, normalized, renormalized, elements, description, nav,
                   sections_structure, endpoint, endpoint_links, section_name,
                   endpoint_result, section_element, section_result, document,
                   navigation_structure, api_data, section_index>>

NextRun == Fetch \/ BuildNavigation \/ ParseNextSection \/ ReturnData

SpecRun == InitRun /\ [][NextRun]_vars

\* the run comes as far as the section loop
ReachesSections ==
    /\ document.status = "ok"
    /\ document.navs # <<>>
    /\ document.contents # <<>>
    /\ _parse_navigation_structure(document.navs[1], base_url).ok

\* some section of the page fails to parse
SomeSectionFails ==
    /\ ReachesSections
    /\ \E i \in 1..Len(document.contents[1]) :
           ~_parse_section(document.contents[1][i],
                           _parse_navigation_structure(document.navs[1],
                                                       base_url).value).ok

\* C5: the result is either {data} or {error, traceback}; when a section
\* or an endpoint fails, also after earlier ones were extracted, the
\* result is the error shape and holds no record; a {data} result has
\* every section of the page.
ResultIsDataOrError ==
    pc = "done" =>
        /\ \/ DOMAIN parse_result = {"data"}
           \/ DOMAIN parse_result = {"error", "traceback"}
        /\ SomeSectionFails =>
             /\ DOMAIN parse_result = {"error", "traceback"}
             /\ parse_result.error[1] \in {"Parsing error", "Unexpected error"}
        /\ DOMAIN parse_result = {"data"} =>
             /\ ReachesSections
             /\ parse_result.data = api_data
             /\ DOMAIN parse_result.data =
                    {normalize_text(document.contents[1][i].group_headings[1]) :
                         i \in 1..Len(document.contents[1])}

\* C5 witness: the first section was extracted, the second one fails at its
\* second endpoint, and the result is the error shape.
ResultIsDataOrErrorWitness ==
    /\ pc = "done"
    /\ ReachesSections
    /\ Len(document.contents[1]) = 2
    /\ section_index = 2
    /\ api_data # EmptyDict
    /\ Len(document.contents[1][2].actions) = 3
    /\ DOMAIN parse_result = {"error", "traceback"}
    /\ parse_result.error = <<"Parsing error", "ValueError">>

====
